---------------------------- MODULE Spec2Model ----------------------------
(***************************************************************************)
(* Model of the Cloud Trace exporter of opentelemetry-operations-js:       *)
(*   - the span transformer (src/.../transform.ts), a pure function, and   *)
(*   - the TraceExporter (src/.../trace.ts), an object with two lazily     *)
(*     cached fields whose export() runs as a chain of promise             *)
(*     continuations.                                                      *)
(*                                                                         *)
(* JavaScript values are records tagged by their typeof:                   *)
(*   [t |-> "undefined"], [t |-> "string", s |-> ..],                      *)
(*   [t |-> "number", n |-> ..], [t |-> "boolean", b |-> ..],              *)
(*   [t |-> "object", props |-> f]  with f a function from own enumerable  *)
(*   property names to values.                                             *)
(* A number is held in hundredths (112.12 is n = 11212), so that           *)
(* Math.round has something to round.                                      *)
(***************************************************************************)
EXTENDS Integers, Sequences, FiniteSets, TLC

VARIABLES
    \* ---- TraceExporter instance (trace.ts) ----
    projectIdField,   \* this._projectId: the pending promise or its value
    pidSettled,       \* whether the promise made in the constructor has settled
    pidValue,         \* the value that promise settled with
    pidWaiters,       \* export calls suspended on the pending promise, in order
    client,           \* this._traceServiceClient (NoClient = undefined)
    microtasks,       \* continuations ready to run, first in first out
    pc,               \* where each export call is
    spansIn,          \* the spans each export call was given
    request,          \* the BatchWriteSpansRequest each export call built
    built,            \* the client each call's _getClient() returned
    batchResult,      \* what each call's _batchWriteSpans promise resolved with
    \* ---- what the collaborators and the caller observed ----
    getProjectIdCalls,\* calls of auth.getProjectId()
    getClientCalls,   \* calls of _getClient() per export call
    authOutcome,      \* how auth.getClient() settled for each export call
    rpcOutcome,       \* what the batchWriteSpans callback reported per call
    constructed,      \* the clients built, in order of construction
    rpcIssued,        \* the batchWriteSpans calls each export issued
    cbLog,            \* the result codes each call's resultCallback received
    exportPromise,    \* the promise each export() call returned
    overlapped,       \* whether some export was called while another ran
    \* ---- transformer harness ----
    tSpan,            \* the span given to the transformer
    tProject,         \* the project id given to getReadableSpanTransformer
    tOut              \* the transformed span (NotYet before the call)

vars == << projectIdField, pidSettled, pidValue, pidWaiters, client,
           microtasks, pc, spansIn, request, built, batchResult,
           getProjectIdCalls,
           getClientCalls, authOutcome, rpcOutcome, constructed, rpcIssued,
           cbLog, exportPromise, overlapped, tSpan, tProject, tOut >>

exporterVars == << projectIdField, pidSettled, pidValue, pidWaiters, client,
           microtasks, pc, spansIn, request, built, batchResult,
           getProjectIdCalls,
           getClientCalls, authOutcome, rpcOutcome, constructed, rpcIssued,
           cbLog, exportPromise, overlapped >>

transformVars == << tSpan, tProject, tOut >>

-----------------------------------------------------------------------------
(* JavaScript values *)

Undefined == [t |-> "undefined"]
Str(s) == [t |-> "string", s |-> s]
Num(n) == [t |-> "number", n |-> n]
Bool(b) == [t |-> "boolean", b |-> b]
Obj(f) == [t |-> "object", props |-> f]
EmptyObject == Obj(<<>>)

\* !value for the values the exporter and the transformer test
Falsy(value) ==
    \/ value.t = "undefined"
    \/ value.t = "string" /\ value.s = ""
    \/ value.t = "number" /\ value.n = 0
    \/ value.t = "boolean" /\ ~value.b

\* Object.keys(o)
ObjectKeys(o) == DOMAIN o.props

\* Object.assign(target, source): source's own properties overwrite target's
ObjectAssign(target, source) ==
    Obj([k \in ObjectKeys(target) \cup ObjectKeys(source) |->
            IF k \in ObjectKeys(source) THEN source.props[k]
                                        ELSE target.props[k]])

\* Math.round on a number held in hundredths: floor(x + 0.5)
MathRound(n) == (n + 50) \div 100

-----------------------------------------------------------------------------
(* transform.ts *)

AGENT_LABEL_KEY == "g.co/agent"
CORE_VERSION == "0.10.0"
VERSION == "0.3.0"
AGENT_LABEL_VALUE ==
    "opentelemetry-js " \o CORE_VERSION \o "; google-cloud-trace-exporter " \o VERSION

stringToTruncatableString(value) == [value |-> value]

transformBool(value) == [value |-> value]

transformTime(time) == [seconds |-> time[1], nanos |-> time[2]]

\* rpc.Status.create leaves an undefined message at the message default ""
transformStatus(status) ==
    [code |-> status.code,
     message |-> IF status.message.t = "undefined" THEN "" ELSE status.message.s]

valueToAttributeValue(value) ==
    CASE value.t = "number"  -> [intValue |-> MathRound(value.n)]
      [] value.t = "boolean" -> [boolValue |-> value.b]
      [] value.t = "string"  -> [stringValue |-> stringToTruncatableString(value.s)]
      [] OTHER               -> [unset |-> TRUE]

\* a bug that keeps every value, whatever its type
RetainedTypeAny(value) == TRUE

\* typeof value is 'number', 'boolean' or 'string'
RetainedType(value) == value.t \in {"number", "boolean", "string"}

transformAttributeValues(attributes) ==
    [key \in {k \in ObjectKeys(attributes) : RetainedType(attributes.props[k])} |->
        valueToAttributeValue(attributes.props[key])]

\* a bug that merges the resource labels first, so that they lose
MergeAttributesResourceFirst(requestAttributes, serviceAttributes, labels) ==
    ObjectAssign(ObjectAssign(ObjectAssign(EmptyObject, labels),
                              requestAttributes),
                 serviceAttributes)

\* a bug that merges the service attributes last, so that they win
MergeAttributesServiceLast(requestAttributes, serviceAttributes, labels) ==
    ObjectAssign(ObjectAssign(ObjectAssign(EmptyObject, requestAttributes),
                              labels),
                 serviceAttributes)

\* Object.assign({}, requestAttributes, serviceAttributes, resource.labels)
MergeAttributes(requestAttributes, serviceAttributes, labels) ==
    ObjectAssign(ObjectAssign(ObjectAssign(EmptyObject, requestAttributes),
                              serviceAttributes),
                 labels)

\* Resource.empty()
ResourceEmpty == [labels |-> EmptyObject]

\* a parameter's default stands in for an undefined argument
OrDefault(arg, default) == IF arg = Undefined THEN default ELSE arg

\* a bug that counts the retained keys instead of the dropped ones
DroppedCountRetained(attributes, attributeMap) ==
    Cardinality(DOMAIN attributeMap)

\* Object.keys(attributes).length - Object.keys(attributeMap).length
DroppedCount(attributes, attributeMap) ==
    Cardinality(ObjectKeys(attributes)) - Cardinality(DOMAIN attributeMap)

transformAttributes(requestAttributes, serviceAttributes, resource) ==
    LET attributes == MergeAttributes(OrDefault(requestAttributes, EmptyObject),
                                      OrDefault(serviceAttributes, EmptyObject),
                                      OrDefault(resource, ResourceEmpty).labels)
        attributeMap == transformAttributeValues(attributes)
    IN  [attributeMap |-> attributeMap,
         droppedAttributesCount |-> DroppedCount(attributes, attributeMap)]

transformLink(link) ==
    [attributes |-> transformAttributes(link.attributes, Undefined, Undefined),
     spanId |-> link.context.spanId,
     traceId |-> link.context.traceId,
     type |-> "TYPE_UNSPECIFIED"]

\* links.map(transformLink)
transformLinks(links) ==
    [link |-> [i \in 1..Len(links) |-> transformLink(links[i])]]

transformTimeEvent(event) ==
    [time |-> transformTime(event.time),
     annotation |->
        [attributes |-> transformAttributes(event.attributes, Undefined, Undefined),
         description |-> stringToTruncatableString(event.name)]]

\* events.map(transformTimeEvent)
transformTimeEvents(events) ==
    [timeEvent |-> [i \in 1..Len(events) |-> transformTimeEvent(events[i])]]

\* the service attributes getReadableSpanTransformer passes for a span
ServiceAttributes(projectId) ==
    Obj([k \in {"project_id", AGENT_LABEL_KEY} |->
            IF k = "project_id" THEN Str(projectId) ELSE Str(AGENT_LABEL_VALUE)])

\* what a Span message reads as parentSpanId while none was set
DefaultParentSpanId == ""

\* a bug that copies the span's own id as its parent
ParentSpanIdOwnId(span) ==
    IF Falsy(span.parentSpanId) THEN DefaultParentSpanId ELSE span.spanContext.spanId

\* if (span.parentSpanId) { out.parentSpanId = span.parentSpanId; }
ParentSpanId(span) ==
    IF Falsy(span.parentSpanId) THEN DefaultParentSpanId ELSE span.parentSpanId.s

\* getReadableSpanTransformer(projectId)(span); parentSpanId reads "" (the
\* message's default) unless the span has a truthy one
ReadableSpanTransformer(projectId, span) ==
    [attributes |-> transformAttributes(span.attributes,
                                        ServiceAttributes(projectId),
                                        span.resource),
     displayName |-> stringToTruncatableString(span.name),
     links |-> transformLinks(span.links),
     endTime |-> transformTime(span.endTime),
     startTime |-> transformTime(span.startTime),
     name |-> "projects/" \o projectId \o "/traces/" \o span.spanContext.traceId
                  \o "/spans/" \o span.spanContext.spanId,
     spanId |-> span.spanContext.spanId,
     sameProcessAsParentSpan |-> transformBool(~span.spanContext.isRemote),
     status |-> transformStatus(span.status),
     timeEvents |-> transformTimeEvents(span.events),
     parentSpanId |-> ParentSpanId(span)]

-----------------------------------------------------------------------------
(* Inputs *)

MaxCalls == 2

Calls == 1..MaxCalls

\* what auth.getProjectId() can resolve with
ProjectIds == {"project-id"}

TestSpanContext ==
    [traceId |-> "d4cda95b652f4a1592b449d5929fda1b",
     spanId |-> "6e0c63257de34c92",
     isRemote |-> TRUE]

\* objects whose property k, when present, has a value of pool[k]
ObjectsOver(pool) ==
    UNION { { Obj(f) : f \in { g \in [D -> UNION { pool[k] : k \in D }] :
                                   \A k \in D : g[k] \in pool[k] } } :
            D \in SUBSET DOMAIN pool }

\* a value of a type the format has no place for: { message: 'dropped' }
DroppedValue == Obj([k \in {"message"} |-> Str("dropped")])

RequestAttributePool ==
    [k \in {"project_id", AGENT_LABEL_KEY, "testAttr"} |->
        CASE k = "project_id"    -> {Str("from-span"), DroppedValue}
          [] k = AGENT_LABEL_KEY -> {Str("from-span")}
          [] OTHER               -> {Str("str"), Num(300), Bool(TRUE), DroppedValue}]

ResourceLabelPool ==
    [k \in {"project_id", AGENT_LABEL_KEY, "testAttr"} |->
        CASE k = "project_id"    -> {Str("from-resource")}
          [] k = AGENT_LABEL_KEY -> {Num(11212), Undefined}
          [] OTHER               -> {Str("ui"), Num(100), EmptyObject}]

LinkContext ==
    [traceId |-> "a4cda95b652f4a1592b449d5929fda1b", spanId |-> "3e0c63257de34c92"]

LinkLists ==
    { <<>>,
      << [context |-> LinkContext, attributes |-> Undefined],
         [context |-> LinkContext,
          attributes |-> Obj([k \in {"testAttr", "droppedAttr"} |->
                                IF k = "testAttr" THEN Str("value") ELSE EmptyObject])] >> }

EventLists ==
    { <<>>,
      << [name |-> "something happened", time |-> <<1566156729, 809>>,
          attributes |-> Undefined],
         [name |-> "something happened", time |-> <<1566156729, 809>>,
          attributes |-> Obj([k \in {"error", "dropped"} |->
                                IF k = "error" THEN Bool(TRUE) ELSE EmptyObject])] >> }

\* the spans the transformer is tried on
Spans ==
    [ name : {"my-span"},
      spanContext : { [TestSpanContext EXCEPT !.isRemote = r] : r \in BOOLEAN },
      parentSpanId : {Undefined, Str(""), Str("3e0c63257de34c92")},
      attributes : ObjectsOver(RequestAttributePool),
      resource : { [labels |-> l] : l \in ObjectsOver(ResourceLabelPool) },
      links : LinkLists,
      events : EventLists,
      startTime : { <<1566156729, 709>> },
      endTime : { <<1566156731, 709>> },
      status : { [code |-> 0, message |-> Undefined],
                 [code |-> 2, message |-> Str("unknown")] } ]

\* the readable span of the transformer's tests
TestSpan ==
    [ name |-> "my-span",
      spanContext |-> TestSpanContext,
      parentSpanId |-> Undefined,
      attributes |-> EmptyObject,
      resource |-> [labels |-> Obj([k \in {"service", "version", "cost"} |->
                        CASE k = "service" -> Str("ui")
                          [] k = "version" -> Num(100)
                          [] OTHER         -> Num(11212)])],
      links |-> <<>>,
      events |-> <<>>,
      startTime |-> <<1566156729, 709>>,
      endTime |-> <<1566156731, 709>>,
      status |-> [code |-> 0, message |-> Undefined] ]

ChildSpan ==
    [TestSpan EXCEPT !.parentSpanId = Str("3e0c63257de34c92"),
                     !.spanContext.spanId = "7e0c63257de34c92",
                     !.attributes = Obj([k \in {"testUnknownType"} |-> DroppedValue])]

\* the lists of spans the exporter is given
SpanLists == { <<>>, <<TestSpan, ChildSpan>>, <<ChildSpan, TestSpan>> }

-----------------------------------------------------------------------------
(* trace.ts *)

\* ExportResult
SUCCESS == "SUCCESS"
FAILED_NOT_RETRYABLE == "FAILED_NOT_RETRYABLE"
FAILED_RETRYABLE == "FAILED_RETRYABLE"

\* this._traceServiceClient = undefined
NoClient == 0

\* this._projectId while it still holds the promise of the constructor
PendingPromise == [t |-> "promise"]

NoRequest == [unset |-> TRUE]

\* a bug that takes only undefined for a missing project id
ProjectIdMissingUndefinedOnly(projectId) == projectId.t = "undefined"

\* !this._projectId
ProjectIdMissing(projectId) == Falsy(projectId)

\* a bug that builds a client on every export
NeedsClientAlways(cached) == TRUE

\* !this._traceServiceClient
NeedsClient(cached) == cached = NoClient

\* a bug that sends the spans in reverse order
BatchWriteSpansRequestReversed(projectId, spans) ==
    [name |-> "projects/" \o projectId,
     spans |-> [i \in 1..Len(spans) |->
                   ReadableSpanTransformer(projectId, spans[Len(spans) + 1 - i])]]

\* BatchWriteSpansRequest.create({name, spans: spans.map(transformer)})
BatchWriteSpansRequest(projectId, spans) ==
    [name |-> "projects/" \o projectId,
     spans |-> [i \in 1..Len(spans) |-> ReadableSpanTransformer(projectId, spans[i])]]

\* a bug that reports every finished call as a success
CallbackResultAlwaysSuccess(err) == SUCCESS

\* the batchWriteSpans callback: err or no err
CallbackResult(err) == IF err THEN FAILED_RETRYABLE ELSE SUCCESS

\* a bug that keeps a stand-in client after a failed construction
CachedAfterGetClientKeepsFailure(cached, outcome, new) ==
    IF outcome = "ok" THEN new ELSE MaxCalls + 1

\* a bug that keeps the client already cached when a second one arrives
CachedAfterGetClientFirstWins(cached, outcome, new) ==
    IF outcome = "ok" /\ cached = NoClient THEN new ELSE cached

\* a bug that clears the cache when a construction fails
CachedAfterGetClientClearsOnFailure(cached, outcome, new) ==
    IF outcome = "ok" THEN new ELSE NoClient

\* this._traceServiceClient = await this._getClient(): a throw skips the
\* assignment
CachedAfterGetClient(cached, outcome, new) ==
    IF outcome = "ok" THEN new ELSE cached

\* a bug that never tells the caller
ResultCallbackForgotten(log, result) == log

\* resultCallback(result)
ResultCallback(log, result) == Append(log, result)

Active(e) == pc[e] \notin {"idle", "done"}

\* export(), from after the project id is known to its first suspension:
\* the check of the id, the request, and the executor of _batchWriteSpans
\* up to `await this._getClient()` or to the batchWriteSpans call
AfterProjectId(e, projectId, spans) ==
    IF ProjectIdMissing(projectId)
    THEN /\ cbLog' = [cbLog EXCEPT ![e] = ResultCallback(@, FAILED_NOT_RETRYABLE)]
         /\ exportPromise' = [exportPromise EXCEPT ![e] = "resolved"]
         /\ pc' = [pc EXCEPT ![e] = "done"]
         /\ UNCHANGED << request, getClientCalls, rpcIssued >>
    ELSE /\ request' = [request EXCEPT ![e] = BatchWriteSpansRequest(projectId.s, spans)]
         /\ IF NeedsClient(client)
            THEN /\ getClientCalls' = [getClientCalls EXCEPT ![e] = @ + 1]
                 /\ pc' = [pc EXCEPT ![e] = "awaitCredentials"]
                 /\ UNCHANGED rpcIssued
            ELSE /\ rpcIssued' = [rpcIssued EXCEPT ![e] =
                        Append(@, [client |-> client, request |-> request'[e]])]
                 /\ pc' = [pc EXCEPT ![e] = "awaitRpc"]
                 /\ UNCHANGED getClientCalls
         /\ exportPromise' = [exportPromise EXCEPT ![e] = "pending"]
         /\ UNCHANGED cbLog

\* auth.getProjectId() settles: it resolves with an id or with no id, or it
\* rejects and the constructor's catch turns that into undefined
ResolveProjectId ==
    /\ ~pidSettled
    /\ \E value \in { Str(id) : id \in ProjectIds } \cup {Str(""), Undefined} :
          pidValue' = value
    /\ pidSettled' = TRUE
    /\ microtasks' = microtasks \o pidWaiters
    /\ pidWaiters' = <<>>
    /\ UNCHANGED << projectIdField, client, pc, spansIn, request, built,
                    batchResult, getProjectIdCalls, getClientCalls, authOutcome,
                    rpcOutcome, constructed, rpcIssued, cbLog, exportPromise,
                    overlapped, transformVars >>

\* export(spans, resultCallback) is called with one of `lists`, and runs to
\* its first suspension
Export(e, lists) ==
    /\ pc[e] = "idle"
    /\ \A d \in Calls : d < e => pc[d] # "idle"
    /\ \E spans \in lists :
        /\ spansIn' = [spansIn EXCEPT ![e] = spans]
        /\ overlapped' = (overlapped \/ \E d \in Calls : Active(d))
        /\ IF projectIdField = PendingPromise
           THEN /\ pc' = [pc EXCEPT ![e] = "awaitProjectId"]
                /\ exportPromise' = [exportPromise EXCEPT ![e] = "pending"]
                /\ IF pidSettled
                   THEN /\ microtasks' = Append(microtasks, e)
                        /\ UNCHANGED pidWaiters
                   ELSE /\ pidWaiters' = Append(pidWaiters, e)
                        /\ UNCHANGED microtasks
                /\ UNCHANGED << request, getClientCalls, rpcIssued, cbLog >>
           ELSE /\ AfterProjectId(e, projectIdField, spans)
                /\ UNCHANGED << microtasks, pidWaiters >>
    /\ UNCHANGED << projectIdField, pidSettled, pidValue, client, built,
                    batchResult, getProjectIdCalls, authOutcome, rpcOutcome,
                    constructed, transformVars >>

ExportCall(e) == Export(e, SpanLists)

\* the same call, given the one list of the two test spans
ExportCallTwoSpans(e) == Export(e, { <<TestSpan, ChildSpan>> })

\* `this._projectId = await this._projectId` resumes
ResumeAfterProjectId(e) ==
    /\ pc[e] = "awaitProjectId"
    /\ projectIdField' = pidValue
    /\ AfterProjectId(e, pidValue, spansIn[e])
    /\ UNCHANGED << client, built, batchResult, authOutcome, rpcOutcome,
                    constructed >>

\* auth.getClient() settles for the _getClient() of call e
CredentialsSettle(e) ==
    /\ pc[e] = "awaitCredentials"
    /\ \E outcome \in {"ok", "rejected"} :
          authOutcome' = [authOutcome EXCEPT ![e] = outcome]
    /\ pc' = [pc EXCEPT ![e] = "credentialsSettled"]
    /\ microtasks' = Append(microtasks, e)
    /\ UNCHANGED << projectIdField, pidSettled, pidValue, pidWaiters, client,
                    spansIn, request, built, batchResult, getProjectIdCalls,
                    getClientCalls, rpcOutcome, constructed, rpcIssued, cbLog,
                    exportPromise, overlapped, transformVars >>

\* `await this._auth.getClient()` resumes in _getClient(): it builds the
\* client and returns it, or throws what auth.getClient() rejected with
ResumeGetClient(e) ==
    /\ pc[e] = "credentialsSettled"
    /\ IF authOutcome[e] = "ok"
       THEN /\ built' = [built EXCEPT ![e] = Len(constructed) + 1]
            /\ constructed' = Append(constructed, e)
       ELSE UNCHANGED << built, constructed >>
    /\ pc' = [pc EXCEPT ![e] = "awaitGetClient"]
    /\ UNCHANGED << projectIdField, client, request, batchResult,
                    getClientCalls, authOutcome, rpcOutcome, rpcIssued, cbLog,
                    exportPromise >>

\* `await this._getClient()` resumes in the executor of _batchWriteSpans:
\* the client is cached and batchWriteSpans called on it, or the catch
\* resolves with FAILED_NOT_RETRYABLE
ResumeAfterGetClient(e) ==
    /\ pc[e] = "awaitGetClient"
    /\ client' = CachedAfterGetClient(client, authOutcome[e], built[e])
    /\ IF authOutcome[e] = "ok"
       THEN /\ rpcIssued' = [rpcIssued EXCEPT ![e] =
                   Append(@, [client |-> client', request |-> request[e]])]
            /\ pc' = [pc EXCEPT ![e] = "awaitRpc"]
            /\ UNCHANGED batchResult
       ELSE /\ batchResult' = [batchResult EXCEPT ![e] = FAILED_NOT_RETRYABLE]
            /\ pc' = [pc EXCEPT ![e] = "awaitBatchResult"]
            /\ UNCHANGED rpcIssued
    /\ UNCHANGED << projectIdField, request, built, getClientCalls,
                    authOutcome, rpcOutcome, constructed, cbLog, exportPromise >>

\* the callback given to batchWriteSpans is called, with an error or not
RpcCallback(e) ==
    /\ pc[e] = "awaitRpc"
    /\ \E err \in BOOLEAN :
        /\ rpcOutcome' = [rpcOutcome EXCEPT ![e] = IF err THEN "error" ELSE "ok"]
        /\ batchResult' = [batchResult EXCEPT ![e] = CallbackResult(err)]
    /\ pc' = [pc EXCEPT ![e] = "awaitBatchResult"]
    /\ microtasks' = Append(microtasks, e)
    /\ UNCHANGED << projectIdField, pidSettled, pidValue, pidWaiters, client,
                    spansIn, request, built, getProjectIdCalls, getClientCalls,
                    authOutcome, constructed, rpcIssued, cbLog, exportPromise,
                    overlapped, transformVars >>

\* `await this._batchWriteSpans(request)` resumes: resultCallback(result)
ResumeAfterBatchWrite(e) ==
    /\ pc[e] = "awaitBatchResult"
    /\ cbLog' = [cbLog EXCEPT ![e] = ResultCallback(@, batchResult[e])]
    /\ exportPromise' = [exportPromise EXCEPT ![e] = "resolved"]
    /\ pc' = [pc EXCEPT ![e] = "done"]
    /\ UNCHANGED << projectIdField, client, request, built, batchResult,
                    getClientCalls, authOutcome, rpcOutcome, constructed,
                    rpcIssued >>

\* the continuations that suspend again leave another one in the queue
Requeues(e) == pc[e] \in {"credentialsSettled"}
               \/ (pc[e] = "awaitGetClient" /\ authOutcome[e] # "ok")

\* the event loop runs the oldest ready continuation
RunMicrotask ==
    /\ microtasks # <<>>
    /\ LET e == Head(microtasks) IN
        /\ microtasks' = IF Requeues(e) THEN Append(Tail(microtasks), e)
                                        ELSE Tail(microtasks)
        /\ \/ ResumeAfterProjectId(e)
           \/ ResumeGetClient(e)
           \/ ResumeAfterGetClient(e)
           \/ ResumeAfterBatchWrite(e)
    /\ UNCHANGED << pidSettled, pidValue, pidWaiters, spansIn,
                    getProjectIdCalls, overlapped, transformVars >>

\* shutdown(): void {}
Shutdown == UNCHANGED vars

NotYet == [pending |-> TRUE]

\* the state `new TraceExporter(options)` leaves
ExporterInit ==
    /\ projectIdField = PendingPromise
    /\ pidSettled = FALSE
    /\ pidValue = Undefined
    /\ pidWaiters = <<>>
    /\ client = NoClient
    /\ microtasks = <<>>
    /\ pc = [e \in Calls |-> "idle"]
    /\ spansIn = [e \in Calls |-> <<>>]
    /\ request = [e \in Calls |-> NoRequest]
    /\ built = [e \in Calls |-> NoClient]
    /\ batchResult = [e \in Calls |-> "none"]
    /\ getProjectIdCalls = 1
    /\ getClientCalls = [e \in Calls |-> 0]
    /\ authOutcome = [e \in Calls |-> "none"]
    /\ rpcOutcome = [e \in Calls |-> "none"]
    /\ constructed = <<>>
    /\ rpcIssued = [e \in Calls |-> <<>>]
    /\ cbLog = [e \in Calls |-> <<>>]
    /\ exportPromise = [e \in Calls |-> "none"]
    /\ overlapped = FALSE

Init ==
    /\ ExporterInit
    /\ tSpan = TestSpan
    /\ tProject = "project-id"
    /\ tOut = NotYet

Next ==
    \/ ResolveProjectId
    \/ \E e \in Calls : ExportCall(e)
    \/ \E e \in Calls : CredentialsSettle(e)
    \/ \E e \in Calls : RpcCallback(e)
    \/ RunMicrotask
    \/ Shutdown

Spec == Init /\ [][Next]_vars

\* the collaborators answer and the event loop runs what is ready
Fairness ==
    /\ WF_vars(ResolveProjectId)
    /\ \A e \in Calls : WF_vars(CredentialsSettle(e))
    /\ \A e \in Calls : WF_vars(RpcCallback(e))
    /\ WF_vars(RunMicrotask)

\* for what holds of every list of spans alike: whether and when an export
\* ends does not depend on the spans it was given
FairNext ==
    \/ ResolveProjectId
    \/ \E e \in Calls : ExportCallTwoSpans(e)
    \/ \E e \in Calls : CredentialsSettle(e)
    \/ \E e \in Calls : RpcCallback(e)
    \/ RunMicrotask
    \/ Shutdown

FairSpec == Init /\ [][FairNext]_vars /\ Fairness

-----------------------------------------------------------------------------
(* The transformer on its own *)

TransformInit ==
    /\ ExporterInit
    /\ tSpan \in Spans
    /\ tProject \in ProjectIds
    /\ tOut = NotYet

\* getReadableSpanTransformer(projectId)(span)
Transform ==
    /\ tOut = NotYet
    /\ tOut' = ReadableSpanTransformer(tProject, tSpan)
    /\ UNCHANGED << tSpan, tProject, exporterVars >>

TransformNext == Transform

TransformSpec == TransformInit /\ [][TransformNext]_vars

-----------------------------------------------------------------------------
(* Properties of the exporter *)

\* project-id resolution has rejected (undefined) or yielded no id ("")
NoProjectId == pidSettled /\ (pidValue = Undefined \/ pidValue = Str(""))

\* project-id resolution has yielded an id
KnownProjectId == pidSettled /\ ~NoProjectId

\* the code one export call's own steps call for
ExpectedResult(e) ==
    IF authOutcome[e] = "rejected" THEN FAILED_NOT_RETRYABLE
    ELSE IF rpcOutcome[e] = "error" THEN FAILED_RETRYABLE
    ELSE SUCCESS

\* call e passes the check of this._traceServiceClient in this step
ChecksCache(e) ==
    /\ pc[e] \in {"idle", "awaitProjectId"}
    /\ pc'[e] \in {"awaitCredentials", "awaitRpc"}

\* C1: when project-id resolution rejected or yielded no id, an export, for
\* any list of spans, calls back with FAILED_NOT_RETRYABLE once it is past
\* the project id, and neither builds a client nor issues batchWriteSpans.
C1_NoProjectIdNoNetwork ==
    NoProjectId =>
        \A e \in Calls :
            /\ pc[e] \in {"idle", "awaitProjectId", "done"}
            /\ getClientCalls[e] = 0
            /\ built[e] = NoClient
            /\ rpcIssued[e] = <<>>
            /\ request[e] = NoRequest
            /\ pc[e] = "done" => cbLog[e] = <<FAILED_NOT_RETRYABLE>>

C1_Witness ==
    \E e \in Calls :
        /\ NoProjectId
        /\ pc[e] = "done"
        /\ Len(spansIn[e]) = 2
        /\ cbLog[e] = <<FAILED_NOT_RETRYABLE>>

\* C2: with a known project id, the code an export call delivers follows
\* from that call's own steps, overlapping or not: FAILED_NOT_RETRYABLE when
\* its client construction failed (and then it issued no batchWriteSpans),
\* FAILED_RETRYABLE when its batchWriteSpans callback reported an error,
\* SUCCESS when it reported none.
C2_ResultFromOwnSteps ==
    \A e \in Calls :
        (KnownProjectId /\ pc[e] = "done") =>
            /\ cbLog[e] = << ExpectedResult(e) >>
            /\ authOutcome[e] = "rejected" =>
                    (rpcIssued[e] = <<>> /\ rpcOutcome[e] = "none")
            /\ authOutcome[e] # "rejected" => rpcOutcome[e] \in {"ok", "error"}

C2_Witness ==
    /\ KnownProjectId
    /\ overlapped
    /\ pc[1] = "done" /\ pc[2] = "done"
    /\ cbLog[1] = <<FAILED_RETRYABLE>>
    /\ cbLog[2] = <<FAILED_NOT_RETRYABLE>>

\* C3: every export call ends by calling its callback exactly once, with one
\* of the three result codes, and the promise it returned resolves and never
\* rejects, whatever project-id resolution, client construction and the RPC
\* call come to.
C3_CallbackExactlyOnce ==
    /\ [](\A e \in Calls :
            /\ Len(cbLog[e]) <= 1
            /\ \A i \in 1..Len(cbLog[e]) :
                  cbLog[e][i] \in {SUCCESS, FAILED_NOT_RETRYABLE, FAILED_RETRYABLE}
            /\ exportPromise[e] # "rejected"
            /\ (pc[e] = "done") <=> (Len(cbLog[e]) = 1)
            /\ (pc[e] = "done") <=> (exportPromise[e] = "resolved"))
    /\ \A e \in Calls : (pc[e] # "idle") ~> (pc[e] = "done")

C3_Witness ==
    /\ pc[1] = "done" /\ pc[2] = "done"
    /\ authOutcome[1] = "rejected" /\ cbLog[1] = <<FAILED_NOT_RETRYABLE>>
    /\ rpcOutcome[2] = "error" /\ cbLog[2] = <<FAILED_RETRYABLE>>
    /\ exportPromise[1] = "resolved" /\ exportPromise[2] = "resolved"

\* C4 as stated: over any export calls the client is built once only, and
\* every batchWriteSpans call goes to that first client.
C4_BuiltExactlyOnce ==
    /\ Len(constructed) <= 1
    /\ \A e \in Calls : \A i \in 1..Len(rpcIssued[e]) : rpcIssued[e][i].client = 1

\* C4, amended: an export that checks the cache once a client is cached
\* builds none and issues its batchWriteSpans on the cached client; every
\* batchWriteSpans call goes to the client cached as it is issued; and while
\* no export was called during another, at most one client is ever built.
\* (Exports that overlap while the cache is empty each build one.)
C4_ReusesCachedClient ==
    /\ [][\A e \in Calls :
            /\ (client # NoClient /\ ChecksCache(e)) =>
                    /\ getClientCalls'[e] = 0
                    /\ pc'[e] = "awaitRpc"
                    /\ constructed' = constructed
                    /\ client' = client
            /\ (rpcIssued'[e] # rpcIssued[e]) =>
                    /\ client' # NoClient
                    /\ rpcIssued'[e] = <<[client |-> client', request |-> request'[e]]>>
         ]_vars
    /\ [](~overlapped => Len(constructed) <= 1)
    /\ [](\A e \in Calls : getClientCalls[e] <= 1)

C4_Witness ==
    /\ ~overlapped
    /\ constructed = <<1>>
    /\ pc[2] = "done"
    /\ getClientCalls[2] = 0
    /\ rpcIssued[2] # <<>> /\ rpcIssued[2][1].client = 1

\* C5: a failed client construction is not cached: it leaves the cached
\* client as it was (unset while no construction has succeeded), an export
\* with a known project id that then finds no cached client attempts the
\* construction again, and an export whose construction succeeds issues its
\* batchWriteSpans call.
C5_FailureNotCached ==
    /\ [][\A e \in Calls :
            /\ (pc[e] = "awaitGetClient" /\ authOutcome[e] = "rejected"
                    /\ pc'[e] # pc[e]) => client' = client
            /\ (client = NoClient /\ ChecksCache(e)) =>
                    /\ getClientCalls'[e] = 1
                    /\ pc'[e] = "awaitCredentials"
         ]_vars
    /\ [](constructed = <<>> => client = NoClient)
    /\ [](\A e \in Calls :
            (authOutcome[e] = "ok" /\ pc[e] \in {"awaitRpc", "awaitBatchResult", "done"})
                => Len(rpcIssued[e]) = 1)

C5_Witness ==
    /\ ~overlapped
    /\ authOutcome[1] = "rejected" /\ pc[1] = "done"
    /\ getClientCalls[2] = 1 /\ authOutcome[2] = "ok"
    /\ rpcIssued[2] # <<>>
    /\ client = 1

\* C6: project-id failure is permanent: once resolution has rejected or
\* yielded no id it stays so, auth.getProjectId() is not called again, the
\* field never goes back to a promise, and every export that finishes from
\* then on, one after another or overlapping, reports FAILED_NOT_RETRYABLE
\* with no client built and no batchWriteSpans issued.
C6_ProjectIdFailurePermanent ==
    [][NoProjectId =>
        /\ NoProjectId'
        /\ pidValue' = pidValue
        /\ getProjectIdCalls' = 1
        /\ projectIdField # PendingPromise => projectIdField' = projectIdField
        /\ projectIdField' \in {PendingPromise, pidValue}
        /\ client' = NoClient
        /\ \A e \in Calls :
            /\ getClientCalls'[e] = 0
            /\ rpcIssued'[e] = <<>>
            /\ (pc[e] # "done" /\ pc'[e] = "done") =>
                    cbLog'[e] = <<FAILED_NOT_RETRYABLE>>
            /\ pc[e] = "done" => (pc'[e] = "done" /\ cbLog'[e] = cbLog[e])
    ]_vars

C6_Witness ==
    /\ pidSettled /\ pidValue = Undefined
    /\ projectIdField = Undefined
    /\ pc[1] = "done" /\ pc[2] = "done"
    /\ cbLog[1] = <<FAILED_NOT_RETRYABLE>> /\ cbLog[2] = <<FAILED_NOT_RETRYABLE>>

\* C7: an export call issues at most one batchWriteSpans call, and exactly
\* one once its project id is known and its client is there; the request is
\* named projects/{projectId} and holds one transformed span per span of the
\* call's own list, in the list's order.
C7_OneRequestPerExport ==
    \A e \in Calls :
        /\ Len(rpcIssued[e]) <= 1
        /\ (KnownProjectId /\ pc[e] = "done" /\ authOutcome[e] # "rejected")
                => Len(rpcIssued[e]) = 1
        /\ (KnownProjectId /\ pc[e] = "awaitRpc") => Len(rpcIssued[e]) = 1
        /\ \A i \in 1..Len(rpcIssued[e]) :
            LET req == rpcIssued[e][i].request IN
            /\ rpcIssued[e][i].client # NoClient
            /\ req.name = "projects/" \o pidValue.s
            /\ Len(req.spans) = Len(spansIn[e])
            /\ \A j \in 1..Len(spansIn[e]) :
                /\ req.spans[j].spanId = spansIn[e][j].spanContext.spanId
                /\ req.spans[j] = ReadableSpanTransformer(pidValue.s, spansIn[e][j])

C7_Witness ==
    /\ overlapped
    /\ Len(rpcIssued[1]) = 1 /\ Len(rpcIssued[2]) = 1
    /\ spansIn[1] = <<TestSpan, ChildSpan>>
    /\ spansIn[2] = <<ChildSpan, TestSpan>>
    /\ rpcIssued[1][1].request.spans[1].spanId = TestSpan.spanContext.spanId
    /\ rpcIssued[2][1].request.spans[1].spanId = ChildSpan.spanContext.spanId

-----------------------------------------------------------------------------
(* Properties of the transformer *)

Transformed == tOut # NotYet

\* the three mappings merged for a span's attributes
RequestOf(span) == span.attributes.props
ServiceOf(projectId) == ServiceAttributes(projectId).props
LabelsOf(span) == span.resource.labels.props

\* a value the format has a place for
IsScalar(value) == value.t \in {"string", "number", "boolean"}

\* what the output holds at key when the merged mapping has `value` there
HoldsValue(attributeMap, key, value) ==
    IF IsScalar(value)
    THEN key \in DOMAIN attributeMap /\ attributeMap[key] = valueToAttributeValue(value)
    ELSE key \notin DOMAIN attributeMap

\* C8: for a key in more than one of the three mappings, the span's output
\* value, or its being dropped, comes from the resource labels when they
\* have the key, else from the service attributes (which then override the
\* request attributes).
C8_MergePrecedence ==
    Transformed =>
        LET req == RequestOf(tSpan)
            svc == ServiceOf(tProject)
            lab == LabelsOf(tSpan)
            out == tOut.attributes.attributeMap
        IN  \A key \in DOMAIN req \cup DOMAIN svc \cup DOMAIN lab :
                Cardinality({ m \in {"req", "svc", "lab"} :
                    \/ m = "req" /\ key \in DOMAIN req
                    \/ m = "svc" /\ key \in DOMAIN svc
                    \/ m = "lab" /\ key \in DOMAIN lab }) > 1
                => IF key \in DOMAIN lab THEN HoldsValue(out, key, lab[key])
                   ELSE HoldsValue(out, key, svc[key])

C8_Witness ==
    /\ Transformed
    /\ {"project_id", "testAttr"} \subseteq DOMAIN RequestOf(tSpan)
    /\ {"project_id", "testAttr", AGENT_LABEL_KEY} \subseteq DOMAIN LabelsOf(tSpan)
    /\ RequestOf(tSpan)["testAttr"] = Str("str")
    /\ LabelsOf(tSpan)["testAttr"] = EmptyObject
    /\ LabelsOf(tSpan)[AGENT_LABEL_KEY] = Num(11212)
    /\ tOut.attributes.attributeMap[AGENT_LABEL_KEY] = [intValue |-> 112]
    /\ "testAttr" \notin DOMAIN tOut.attributes.attributeMap

\* C9 as stated: where a resource label shares its key with a span attribute
\* or a service attribute, the output holds the other mapping's value.
C9_ResourceLowest ==
    Transformed =>
        LET req == RequestOf(tSpan)
            svc == ServiceOf(tProject)
            lab == LabelsOf(tSpan)
            out == tOut.attributes.attributeMap
        IN  \A key \in DOMAIN lab \cap (DOMAIN req \cup DOMAIN svc) :
                IF key \in DOMAIN svc THEN HoldsValue(out, key, svc[key])
                ELSE HoldsValue(out, key, req[key])

\* C9, amended: resource labels are merged into every span's attributes with
\* the highest precedence: for every key of the resource labels, shared with
\* a span attribute or a service attribute or not, the output holds the
\* label's value when that is a string, number or boolean, and has no such
\* key otherwise.
C9_ResourceHighest ==
    Transformed =>
        \A key \in DOMAIN LabelsOf(tSpan) :
            HoldsValue(tOut.attributes.attributeMap, key, LabelsOf(tSpan)[key])

C9_Witness ==
    /\ Transformed
    /\ "project_id" \in DOMAIN LabelsOf(tSpan)
    /\ "testAttr" \in DOMAIN LabelsOf(tSpan) \cap DOMAIN RequestOf(tSpan)
    /\ LabelsOf(tSpan)["testAttr"] = Str("ui")
    /\ RequestOf(tSpan)["testAttr"] = Num(300)
    /\ tOut.attributes.attributeMap["project_id"] =
            [stringValue |-> [value |-> "from-resource"]]
    /\ tOut.attributes.attributeMap["testAttr"] = [stringValue |-> [value |-> "ui"]]

\* the merged mapping of a span, by precedence, without Object.assign
MergedKeys(span, projectId) ==
    DOMAIN RequestOf(span) \cup DOMAIN ServiceOf(projectId) \cup DOMAIN LabelsOf(span)

MergedValue(span, projectId, key) ==
    IF key \in DOMAIN LabelsOf(span) THEN LabelsOf(span)[key]
    ELSE IF key \in DOMAIN ServiceOf(projectId) THEN ServiceOf(projectId)[key]
    ELSE RequestOf(span)[key]

\* the own attributes of a link or an event (none when undefined)
OwnProps(attributes) == IF attributes = Undefined THEN <<>> ELSE attributes.props

\* a container holds the scalar-valued keys of `merged` and counts the rest
ContainerOf(container, merged) ==
    LET kept == { k \in DOMAIN merged : IsScalar(merged[k]) }
        rest == { k \in DOMAIN merged : ~IsScalar(merged[k]) }
    IN  /\ DOMAIN container.attributeMap = kept
        /\ container.droppedAttributesCount = Cardinality(rest)
        /\ container.droppedAttributesCount =
                Cardinality(DOMAIN merged) - Cardinality(DOMAIN container.attributeMap)
        /\ container.droppedAttributesCount >= 0

\* C10: every attributes container of the output (the span's, each link's,
\* each event annotation's) holds exactly the keys of its merged mapping
\* whose value is a string, number or boolean, and its droppedAttributesCount
\* is the number of the other keys: merged keys minus retained keys, never
\* negative.
C10_DroppedCount ==
    Transformed =>
        /\ ContainerOf(tOut.attributes,
                [k \in MergedKeys(tSpan, tProject) |-> MergedValue(tSpan, tProject, k)])
        /\ Len(tOut.links.link) = Len(tSpan.links)
        /\ \A i \in 1..Len(tSpan.links) :
                ContainerOf(tOut.links.link[i].attributes,
                            OwnProps(tSpan.links[i].attributes))
        /\ Len(tOut.timeEvents.timeEvent) = Len(tSpan.events)
        /\ \A i \in 1..Len(tSpan.events) :
                ContainerOf(tOut.timeEvents.timeEvent[i].annotation.attributes,
                            OwnProps(tSpan.events[i].attributes))

C10_Witness ==
    /\ Transformed
    /\ tOut.attributes.droppedAttributesCount = 2
    /\ Len(tOut.links.link) = 2
    /\ tOut.links.link[1].attributes.droppedAttributesCount = 0
    /\ tOut.links.link[2].attributes.droppedAttributesCount = 1
    /\ DOMAIN tOut.links.link[2].attributes.attributeMap = {"testAttr"}
    /\ Len(tOut.timeEvents.timeEvent) = 2
    /\ tOut.timeEvents.timeEvent[2].annotation.attributes.droppedAttributesCount = 1

\* C11: the output parentSpanId is "" when the span has no parentSpanId and
\* is the span's parentSpanId, unchanged, when it has one; it is the same
\* whatever the span's other fields and the project id are.
C11_ParentSpanId ==
    Transformed =>
        tOut.parentSpanId = IF tSpan.parentSpanId = Undefined THEN ""
                            ELSE tSpan.parentSpanId.s

C11_Witness ==
    /\ Transformed
    /\ tSpan.parentSpanId = Str("3e0c63257de34c92")
    /\ tOut.parentSpanId = "3e0c63257de34c92"
    /\ tOut.spanId = "6e0c63257de34c92"
    /\ ~tSpan.spanContext.isRemote
    /\ Len(tSpan.links) = 2
    /\ tOut.attributes.droppedAttributesCount > 0

-----------------------------------------------------------------------------
(* Properties of the exporter's two cached fields *)

\* call e has built a client and is past `this._traceServiceClient = await ..`
HasAssigned(e) ==
    /\ authOutcome[e] = "ok"
    /\ pc[e] \in {"awaitRpc", "awaitBatchResult", "done"}

\* some client is built and not yet assigned to the field
AssignmentPending ==
    \E e \in Calls : pc[e] = "awaitGetClient" /\ authOutcome[e] = "ok"

\* C12: two exports that both found no cached client both build one (each
\* its own), each issues its batchWriteSpans call and ends with its own
\* result, and once every built client has been assigned the cached client
\* is the one built last.
C12_LastConstructionWins ==
    /\ \A e1, e2 \in Calls :
        (e1 # e2 /\ HasAssigned(e1) /\ HasAssigned(e2)) =>
            /\ getClientCalls[e1] = 1 /\ getClientCalls[e2] = 1
            /\ built[e1] # NoClient /\ built[e2] # NoClient
            /\ built[e1] # built[e2]
            /\ rpcIssued[e1] = <<[client |-> built[e1], request |-> request[e1]]>>
            /\ rpcIssued[e2] = <<[client |-> built[e2], request |-> request[e2]]>>
            /\ pc[e1] = "done" => cbLog[e1] = << ExpectedResult(e1) >>
            /\ pc[e2] = "done" => cbLog[e2] = << ExpectedResult(e2) >>
    /\ (constructed # <<>> /\ ~AssignmentPending) =>
            /\ client = Len(constructed)
            /\ client = built[constructed[Len(constructed)]]

C12_Witness ==
    /\ overlapped
    /\ pc[1] = "done" /\ pc[2] = "done"
    /\ constructed = <<2, 1>>
    /\ built[1] = 2 /\ built[2] = 1
    /\ client = 2
    /\ cbLog[1] = <<SUCCESS>> /\ cbLog[2] = <<FAILED_RETRYABLE>>

\* how far the instance has come: no project id in the field, a project
\* id (or none, for good) in the field, a client cached
Stage ==
    IF client # NoClient THEN "ClientReady"
    ELSE IF projectIdField # PendingPromise THEN "ProjectResolved"
    ELSE "Uninitialized"

StagesFrom(stage) ==
    CASE stage = "Uninitialized"   -> {"Uninitialized", "ProjectResolved", "ClientReady"}
      [] stage = "ProjectResolved" -> {"ProjectResolved", "ClientReady"}
      [] OTHER                     -> {"ClientReady"}

\* C13: under every interleaving of exports and shutdowns the instance only
\* moves forward: a client is cached only once the field holds a non-empty
\* project id, a project id in the field never changes nor goes back to the
\* promise, and a cached client is never cleared.
C13_StateOnlyMovesForward ==
    /\ [](client # NoClient =>
            /\ projectIdField # PendingPromise
            /\ projectIdField.t = "string" /\ projectIdField.s # ""
            /\ projectIdField = pidValue)
    /\ [][/\ projectIdField # PendingPromise => projectIdField' = projectIdField
          /\ client # NoClient => client' # NoClient
          /\ Stage' \in StagesFrom(Stage)
         ]_vars

C13_Witness ==
    /\ overlapped
    /\ projectIdField = Str("project-id")
    /\ pc[1] = "done" /\ authOutcome[1] = "ok"
    /\ pc[2] = "done" /\ authOutcome[2] = "rejected"
    /\ constructed = <<1>>
    /\ client = 1

=============================================================================
